---- MODULE Spec2Model ----
(***************************************************************************)
(* Model of the MongoDB MCP server: the structural validator               *)
(* (security.ts), the limit policy, and the six tool handlers around the   *)
(* shared database client.                                                 *)
(***************************************************************************)
EXTENDS Integers, Sequences, FiniteSets, TLC

(***************************************************************************)
(* JSON values.  Every value is a record of one shape:                     *)
(*   t     "null" | "str" | "num" | "seq" | "map"                          *)
(*   n     the number of a "num" (0 otherwise)                             *)
(*   keys  the keys of a "map" in Object.entries order (<<>> otherwise)    *)
(*   items the elements of a "seq", or the values of a "map", by position  *)
(***************************************************************************)
NullV == [t |-> "null", n |-> 0, keys |-> <<>>, items |-> <<>>]
StrV == [t |-> "str", n |-> 0, keys |-> <<>>, items |-> <<>>]
NumV(k) == [t |-> "num", n |-> k, keys |-> <<>>, items |-> <<>>]
SeqV(xs) == [t |-> "seq", n |-> 0, keys |-> <<>>, items |-> xs]
MapV(ks, xs) == [t |-> "map", n |-> 0, keys |-> ks, items |-> xs]
EmptyMap == MapV(<<>>, <<>>)

\* typeof v === "object" && v !== null
IsObject(v) == v.t \in {"seq", "map"}
\* JavaScript truthiness of a value
Truthy(v) == IF v.t = "null" THEN FALSE ELSE IF v.t = "num" THEN v.n # 0 ELSE TRUE
\* key in obj, for a plain object
HasKey(obj, key) == obj.t = "map" /\ \E i \in 1..Len(obj.keys) : obj.keys[i] = key
\* obj[key], for a key the object has
Get(obj, key) == obj.items[CHOOSE i \in 1..Len(obj.keys) : obj.keys[i] = key]
\* Array.prototype.includes
Includes(arr, x) == \E i \in 1..Len(arr) : arr[i] = x

(***************************************************************************)
(* Bounded sets of values: all values of exactly n nodes over a key set K  *)
(* and a scalar set S (a scalar, an empty sequence and an empty mapping    *)
(* count one node; a container counts one plus its children).              *)
(***************************************************************************)
\* sequences of len distinct keys of K
RECURSIVE KeySeqs(_, _)
KeySeqs(K, len) ==
  IF len = 0 THEN {<<>>}
  ELSE UNION {{<<k>> \o r : r \in KeySeqs(K \ {k}, len - 1)} : k \in K}

RECURSIVE ValuesOfSize(_, _, _), ListsOfSize(_, _, _)
ValuesOfSize(K, S, n) ==
  IF n = 1 THEN S \cup {SeqV(<<>>), EmptyMap}
  ELSE LET lists == ListsOfSize(K, S, n - 1)
       IN {SeqV(l) : l \in lists}
          \cup UNION {{MapV(ks, l) : ks \in KeySeqs(K, Len(l))} : l \in lists}
ListsOfSize(K, S, m) ==
  IF m = 0 THEN {<<>>}
  ELSE UNION {{<<p[1]>> \o p[2] : p \in ValuesOfSize(K, S, k) \X ListsOfSize(K, S, m - k)}
              : k \in 1..m}

MapsOfSize(K, S, n) == {v \in ValuesOfSize(K, S, n) : v.t = "map"}
MapsUpTo(K, S, n) == UNION {MapsOfSize(K, S, k) : k \in 1..n}

\* sequences of mappings of m nodes in all
RECURSIVE MapListsOfSize(_, _, _)
MapListsOfSize(K, S, m) ==
  IF m = 0 THEN {<<>>}
  ELSE UNION {{<<p[1]>> \o p[2] : p \in MapsOfSize(K, S, k) \X MapListsOfSize(K, S, m - k)}
              : k \in 1..m}

\* the keys of a value at any depth, in no order
RECURSIVE KeysIn(_)
KeysIn(v) ==
  {v.keys[i] : i \in 1..Len(v.keys)} \cup UNION {KeysIn(v.items[i]) : i \in 1..Len(v.items)}

\* the keys of a value in depth-first order: a key, then the keys below its value
RECURSIVE PreorderKeys(_), PreorderFrom(_, _)
PreorderKeys(v) == PreorderFrom(v, 1)
PreorderFrom(v, i) ==
  IF i > Len(v.items) THEN <<>>
  ELSE (IF v.t = "map" THEN <<v.keys[i]>> ELSE <<>>)
       \o PreorderKeys(v.items[i]) \o PreorderFrom(v, i + 1)

(***************************************************************************)
(* security.ts                                                             *)
(***************************************************************************)
maxTimeMS == 30000
maxLimit == 100
defaultLimit == 10
maxSampleSize == 1000
defaultSampleSize == 100

PROHIBITED_FILTER_OPERATORS == <<"$where", "$function", "$accumulator">>
\* the stage denylist without $out
PROHIBITED_STAGES_WithoutOut == <<"$merge", "$function", "$accumulator">>
PROHIBITED_STAGES == <<"$out", "$merge", "$function", "$accumulator">>
\* the list validatePipeline passes to the recursive scan
PIPELINE_SCAN_OPERATORS == <<"$function", "$accumulator">>

\* the null result of containsProhibitedOperator (no key of the model is "null")
Null == "null"

RECURSIVE containsProhibitedOperator(_, _), scanFrom(_, _, _)
\* containsProhibitedOperator without the descent into arrays
containsProhibitedOperatorSkipsArrays(obj, prohibited) ==
  IF obj.t # "map" THEN Null ELSE scanFrom(obj, prohibited, 1)
containsProhibitedOperator(obj, prohibited) ==
  IF ~IsObject(obj) THEN Null ELSE scanFrom(obj, prohibited, 1)
\* the two for-loops of containsProhibitedOperator, from position i on
scanFrom(obj, prohibited, i) ==
  IF i > Len(obj.items) THEN Null
  ELSE IF obj.t = "map" /\ Includes(prohibited, obj.keys[i]) THEN obj.keys[i]
  ELSE LET found == containsProhibitedOperator(obj.items[i], prohibited)
       IN IF found # Null THEN found ELSE scanFrom(obj, prohibited, i + 1)

\* the outcome of a validator: ok, or the error thrown and the key it names
Ok == [status |-> "ok", key |-> Null]
Thrown(kind, key) == [status |-> kind, key |-> key]

validateFilter(filter) ==
  LET prohibited == containsProhibitedOperator(filter, PROHIBITED_FILTER_OPERATORS)
  IN IF prohibited # Null THEN Thrown("ProhibitedOperator", prohibited) ELSE Ok

\* the inner loop of validatePipeline over Object.keys(stage), from position i on
RECURSIVE prohibitedStageKeyFrom(_, _)
prohibitedStageKeyFrom(stage, i) ==
  IF i > Len(stage.keys) THEN Null
  ELSE IF Includes(PROHIBITED_STAGES, stage.keys[i]) THEN stage.keys[i]
  ELSE prohibitedStageKeyFrom(stage, i + 1)

\* lookupCheck testing lookup.pipeline for truthiness instead of "pipeline" in lookup
lookupCheckTruthyPipeline(stage) ==
  IF ~HasKey(stage, "$lookup") THEN Ok
  ELSE LET lookup == Get(stage, "$lookup")
       IN IF HasKey(lookup, "pipeline") /\ Truthy(Get(lookup, "pipeline"))
          THEN Thrown("LookupPipeline", "pipeline") ELSE Ok

\* the check of a $lookup stage: lookup && "pipeline" in lookup.  The in
\* operator throws a TypeError on a truthy value that is no object.
lookupCheck(stage) ==
  IF ~HasKey(stage, "$lookup") THEN Ok
  ELSE LET lookup == Get(stage, "$lookup")
       IN IF ~Truthy(lookup) THEN Ok
          ELSE IF ~IsObject(lookup) THEN Thrown("TypeError", Null)
          ELSE IF HasKey(lookup, "pipeline") THEN Thrown("LookupPipeline", "pipeline")
          ELSE Ok

\* validateStage scanning the stage body for the whole stage denylist
validateStageScansAllStages(stage) ==
  LET prohibited == containsProhibitedOperator(stage, PROHIBITED_STAGES)
  IN IF prohibited # Null THEN Thrown("ProhibitedStage", prohibited) ELSE lookupCheck(stage)

\* the body of the loop of validatePipeline for one stage
validateStage(stage) ==
  LET key == prohibitedStageKeyFrom(stage, 1)
  IN IF key # Null THEN Thrown("ProhibitedStage", key)
     ELSE IF lookupCheck(stage) # Ok THEN lookupCheck(stage)
     ELSE LET prohibited == containsProhibitedOperator(stage, PIPELINE_SCAN_OPERATORS)
          IN IF prohibited # Null THEN Thrown("ProhibitedOperator", prohibited) ELSE Ok

RECURSIVE validatePipelineFrom(_, _)
validatePipelineFrom(pipeline, i) ==
  IF i > Len(pipeline) THEN Ok
  ELSE IF validateStage(pipeline[i]) # Ok THEN validateStage(pipeline[i])
  ELSE validatePipelineFrom(pipeline, i + 1)

validatePipeline(pipeline) == validatePipelineFrom(pipeline, 1)

\* an optional number: undefined, or a number
Undefined == [has |-> FALSE, n |-> 0]
Some(k) == [has |-> TRUE, n |-> k]
Min(a, b) == IF a <= b THEN a ELSE b

\* applyLimit letting a requested 0 through
applyLimitZeroPasses(requestedLimit) ==
  IF ~requestedLimit.has THEN defaultLimit
  ELSE IF requestedLimit.n < 0 THEN defaultLimit
  ELSE Min(requestedLimit.n, maxLimit)

applyLimit(requestedLimit) ==
  IF ~requestedLimit.has THEN defaultLimit
  ELSE IF requestedLimit.n <= 0 THEN defaultLimit
  ELSE Min(requestedLimit.n, maxLimit)

applySampleSize(requestedSize) ==
  IF ~requestedSize.has THEN defaultSampleSize
  ELSE IF requestedSize.n <= 0 THEN defaultSampleSize
  ELSE Min(requestedSize.n, maxSampleSize)

(***************************************************************************)
(* Requests, tool arguments and database calls                             *)
(***************************************************************************)
NoFilter == [has |-> FALSE, v |-> EmptyMap]
SomeFilter(f) == [has |-> TRUE, v |-> f]
NoPipeline == [has |-> FALSE, v |-> <<>>]
SomePipeline(p) == [has |-> TRUE, v |-> p]

\* a tools/call request as the caller sends it; explain's operationArgs are the
\* fields filter, pipeline and limit
Request(tool, operation, filter, pipeline, limit, sampleSize) ==
  [tool |-> tool, operation |-> operation, filter |-> filter, pipeline |-> pipeline,
   limit |-> limit, sampleSize |-> sampleSize]
NoRequest == Request("none", "none", NoFilter, NoPipeline, Undefined, Undefined)

\* the outcome of a schema: the parsed arguments, or a ZodError
Parsed(a) == [ok |-> TRUE, args |-> a]
ZodError == [ok |-> FALSE, args |-> NoRequest]

\* filter: z.record(z.unknown()).optional().default({})
filterDefault(filter) == IF filter.has THEN filter ELSE SomeFilter(EmptyMap)

findSchema(raw) ==
  IF raw.limit.has /\ (raw.limit.n < 1 \/ raw.limit.n > maxLimit) THEN ZodError
  ELSE Parsed(Request("find", "none", filterDefault(raw.filter), NoPipeline,
                      IF raw.limit.has THEN raw.limit ELSE Some(defaultLimit), Undefined))

countSchema(raw) ==
  Parsed(Request("count", "none", filterDefault(raw.filter), NoPipeline, Undefined, Undefined))

aggregateSchema(raw) ==
  IF ~raw.pipeline.has \/ Len(raw.pipeline.v) < 1 THEN ZodError
  ELSE Parsed(Request("aggregate", "none", NoFilter, raw.pipeline, Undefined, Undefined))

\* findArgsSchema of explain.ts: an object schema, so unknown keys (pipeline) are stripped
findArgsSchema(operationArgs) ==
  IF operationArgs.limit.has /\ operationArgs.limit.n < 1 THEN ZodError
  ELSE Parsed(Request("explain", operationArgs.operation, filterDefault(operationArgs.filter),
                      NoPipeline, operationArgs.limit, Undefined))

\* aggregateArgsSchema of explain.ts: unknown keys (filter, limit) are stripped
aggregateArgsSchema(operationArgs) ==
  IF ~operationArgs.pipeline.has \/ Len(operationArgs.pipeline.v) < 1 THEN ZodError
  ELSE Parsed(Request("explain", operationArgs.operation, NoFilter, operationArgs.pipeline,
                      Undefined, Undefined))

\* operationArgs: z.union([findArgsSchema, aggregateArgsSchema]) returns the
\* result of the first option that parses
explainSchema(raw) ==
  IF findArgsSchema(raw).ok THEN findArgsSchema(raw)
  ELSE IF aggregateArgsSchema(raw).ok THEN aggregateArgsSchema(raw)
  ELSE ZodError

listCollectionsSchema(raw) ==
  Parsed(Request("list-collections", "none", NoFilter, NoPipeline, Undefined, Undefined))

collectionSchemaSchema(raw) ==
  IF raw.sampleSize.has /\ (raw.sampleSize.n < 1 \/ raw.sampleSize.n > maxSampleSize) THEN ZodError
  ELSE Parsed(Request("collection-schema", "none", NoFilter, NoPipeline, Undefined,
                      IF raw.sampleSize.has THEN raw.sampleSize ELSE Some(defaultSampleSize)))

\* the inputSchema registered for each tool
inputSchema(raw) ==
  CASE raw.tool = "find" -> findSchema(raw)
    [] raw.tool = "count" -> countSchema(raw)
    [] raw.tool = "aggregate" -> aggregateSchema(raw)
    [] raw.tool = "explain" -> explainSchema(raw)
    [] raw.tool = "list-collections" -> listCollectionsSchema(raw)
    [] raw.tool = "collection-schema" -> collectionSchemaSchema(raw)

\* a call on the database client and the options it carries
Call(op, explain, filter, pipeline, limit, timeMS) ==
  [op |-> op, explain |-> explain, filter |-> filter, pipeline |-> pipeline,
   limit |-> limit, maxTimeMS |-> timeMS]

findCall(a) ==
  Call("find", FALSE, a.filter.v, <<>>, Some(applyLimit(a.limit)), Some(maxTimeMS))

countCall(a) == Call("countDocuments", FALSE, a.filter.v, <<>>, Undefined, Some(maxTimeMS))

hasLimitStage(pipeline) == \E i \in 1..Len(pipeline) : HasKey(pipeline[i], "$limit")

LimitStage(k) == MapV(<<"$limit">>, <<NumV(k)>>)

\* effectivePipeline appending the $limit stage whatever the pipeline has
effectivePipelineAlwaysAppends(pipeline) ==
  [caller |-> pipeline,
   effective |-> Append(pipeline, LimitStage(applyLimit(Some(maxLimit))))]

\* the copy of the caller's pipeline and the push of aggregateTool: the array
\* the caller passed, and the array sent
effectivePipeline(pipeline) ==
  [caller |-> pipeline,
   effective |-> IF ~hasLimitStage(pipeline)
                 THEN Append(pipeline, LimitStage(applyLimit(Some(maxLimit))))
                 ELSE pipeline]

aggregateCall(a) ==
  Call("aggregate", FALSE, EmptyMap, effectivePipeline(a.pipeline.v).effective,
       Undefined, Some(maxTimeMS))

explainFindCall(findArgs) ==
  Call("find", TRUE, findArgs.filter.v, <<>>, findArgs.limit, Some(maxTimeMS))

explainAggregateCall(aggArgs) ==
  Call("aggregate", TRUE, EmptyMap, aggArgs.pipeline.v, Undefined, Some(maxTimeMS))

\* db.listCollections({}, { nameOnly: true }): no maxTimeMS among the options
listCollectionsCall == Call("listCollections", FALSE, EmptyMap, <<>>, Undefined, Undefined)

SampleStage(size) == MapV(<<"$sample">>, <<MapV(<<"size">>, <<NumV(size)>>)>>)

collectionSchemaCall(a) ==
  Call("aggregate", FALSE, EmptyMap, <<SampleStage(applySampleSize(a.sampleSize))>>,
       Undefined, Some(maxTimeMS))

\* the response of a tool call: its kind and, for a policy violation, the key named
Response(kind, key) == [kind |-> kind, key |-> key]
NoResponse == Response("none", Null)
PolicyViolation(thrown) ==
  Response(IF thrown.status = "TypeError" THEN "TypeError" ELSE "PolicyViolation", thrown.key)

(***************************************************************************)
(* route.ts: the API key                                                   *)
(***************************************************************************)
\* a value JavaScript takes as false in a condition: undefined, null or ""
Falsy(s) == s \in {Null, ""}

AuthError(code, message) == [status |-> code, error |-> message]
NoAuthError == AuthError(0, Null)

\* validateApiKey without the comparison: any key is taken
validateApiKeyAnyKey(apiKey, expectedKey) ==
  IF Falsy(expectedKey) THEN AuthError(500, "API_KEY environment variable is not configured")
  ELSE IF Falsy(apiKey) THEN AuthError(401, "Missing X-API-Key header")
  ELSE NoAuthError

\* validateApiKey: apiKey is request.headers.get("X-API-Key"), expectedKey is
\* process.env.API_KEY; NoAuthError stands for the null it returns
validateApiKey(apiKey, expectedKey) ==
  IF Falsy(expectedKey) THEN AuthError(500, "API_KEY environment variable is not configured")
  ELSE IF Falsy(apiKey) THEN AuthError(401, "Missing X-API-Key header")
  ELSE IF apiKey # expectedKey THEN AuthError(401, "Invalid API key")
  ELSE NoAuthError

\* process.env.API_KEY: unset (Null), empty, or a key
ApiKeys == {Null, "", "secret", "other"}
\* the X-API-Key header: absent (Null), empty, or a key
Headers == {Null, "", "secret", "other", "guess"}

(***************************************************************************)
(* State                                                                   *)
(***************************************************************************)
VARIABLES
  arg,            \* the argument a pure function is applied to
  out,            \* its outcome, Pending before the call
  header,         \* the X-API-Key header of the request, Null when it has none
  authError,      \* the response validateApiKey gave the request, NoAuthError for none
  invocations,    \* where each concurrent invocation of getDatabase stands
  connections,    \* the state of each promise MongoClient.connect has returned
  env,            \* process.env: which of MONGODB_URI and MONGODB_DB are set, and API_KEY
  client,         \* client.ts: client, "null" or "connected"
  clientPromise,  \* client.ts: clientPromise, "null", "pending", "resolved" or "rejected"
  req,            \* the request as the caller sent it
  args,           \* the arguments the tool handler holds
  pc,             \* where the handler of the request stands
  calls,          \* the calls issued on the database client for the request
  events,         \* what the handler has done so far, in order
  response        \* the response of the request

toolVars == <<header, authError, invocations, connections, env, client, clientPromise, req, args, pc, calls, events, response>>
vars == <<arg, out, header, authError, invocations, connections, env, client, clientPromise, req, args, pc, calls, events, response>>

Pending == [status |-> "pending", key |-> Null]

EnvSet == [MONGODB_URI |-> TRUE, MONGODB_DB |-> TRUE, API_KEY |-> "secret"]
\* no request in flight, nothing connected
Quiet ==
  /\ header = Null /\ authError = NoAuthError
  /\ invocations = <<>> /\ connections = <<>>
  /\ env = EnvSet /\ client = "null" /\ clientPromise = "null"
  /\ req = NoRequest /\ args = NoRequest /\ pc = "idle"
  /\ calls = <<>> /\ events = <<>> /\ response = NoResponse

(***************************************************************************)
(* validateFilter over every filter of at most MaxFilterNodes nodes        *)
(***************************************************************************)
MaxFilterNodes == 4
FilterKeys == {"$where", "$function", "$accumulator", "$and"}
FilterScalars == {StrV}
Filters(n) == MapsUpTo(FilterKeys, FilterScalars, n)

InitFilter == arg \in Filters(MaxFilterNodes) /\ out = Pending /\ Quiet
ValidateFilterCall ==
  out = Pending /\ out' = validateFilter(arg) /\ UNCHANGED <<arg, toolVars>>
NextFilter == ValidateFilterCall
SpecFilter == InitFilter /\ [][NextFilter]_vars

(***************************************************************************)
(* validatePipeline over every pipeline of at most MaxPipelineNodes nodes  *)
(***************************************************************************)
MaxPipelineNodes == 3
StageKeys == {"$out", "$merge", "$function", "$lookup", "pipeline", "$match"}
StageScalars == {NullV, StrV}
Pipelines(n) == UNION {MapListsOfSize(StageKeys, StageScalars, m) : m \in 0..n}

InitPipeline == arg \in Pipelines(MaxPipelineNodes) /\ out = Pending /\ Quiet
ValidatePipelineCall ==
  out = Pending /\ out' = validatePipeline(arg) /\ UNCHANGED <<arg, toolVars>>
NextPipeline == ValidatePipelineCall
SpecPipeline == InitPipeline /\ [][NextPipeline]_vars

(***************************************************************************)
(* applyLimit and applySampleSize over every request in the range          *)
(***************************************************************************)
MaxRequested == 1002
Requested == {Undefined} \cup {Some(k) : k \in (0 - MaxRequested)..MaxRequested}
NotCalled == [fn |-> "none", value |-> 0]

InitLimit == arg \in Requested /\ out = NotCalled /\ Quiet
ApplyLimitCall ==
  /\ out = NotCalled
  /\ out' = [fn |-> "applyLimit", value |-> applyLimit(arg)]
  /\ UNCHANGED <<arg, toolVars>>
ApplySampleSizeCall ==
  /\ out = NotCalled
  /\ out' = [fn |-> "applySampleSize", value |-> applySampleSize(arg)]
  /\ UNCHANGED <<arg, toolVars>>
NextLimit == ApplyLimitCall \/ ApplySampleSizeCall
SpecLimit == InitLimit /\ [][NextLimit]_vars

(***************************************************************************)
(* The tool handlers, one request at a time over the shared client         *)
(***************************************************************************)
MaxStages == 2

MatchStage(key) == MapV(<<"$match">>, <<MapV(<<key>>, <<StrV>>)>>)
StageSamples ==
  { MatchStage("status"), MatchStage("$where"), MatchStage("$function"),
    MapV(<<"$out">>, <<StrV>>),
    MapV(<<"$lookup">>, <<MapV(<<"pipeline">>, <<SeqV(<<>>)>>)>>),
    MapV(<<"$lookup">>, <<MapV(<<"localField">>, <<StrV>>)>>),
    LimitStage(5), LimitStage(5000),
    MapV(<<"$unwind">>, <<StrV>>) }
RequestPipelines(n) == UNION {[1..k -> StageSamples] : k \in 0..n}

FilterSamples ==
  { MapV(<<"status">>, <<StrV>>), MapV(<<"$where">>, <<StrV>>),
    MapV(<<"$and">>, <<SeqV(<<MapV(<<"$function">>, <<StrV>>)>>)>>) }
RequestFilters == {NoFilter} \cup {SomeFilter(f) : f \in FilterSamples}

Requests ==
  {Request("find", "none", f, NoPipeline, l, Undefined) :
     f \in RequestFilters, l \in {Undefined, Some(0), Some(1), Some(100), Some(101)}}
  \cup {Request("count", "none", f, NoPipeline, Undefined, Undefined) : f \in RequestFilters}
  \cup {Request("aggregate", "none", NoFilter, SomePipeline(p), Undefined, Undefined) :
          p \in RequestPipelines(MaxStages)}
  \cup {Request("explain", o, f, p, l, Undefined) :
          o \in {"find", "aggregate"},
          f \in {NoFilter, SomeFilter(MapV(<<"status">>, <<StrV>>)),
                 SomeFilter(MapV(<<"$where">>, <<StrV>>))},
          p \in {NoPipeline} \cup {SomePipeline(q) : q \in RequestPipelines(MaxStages)},
          l \in {Undefined, Some(0), Some(5)}}
  \cup {Request("list-collections", "none", NoFilter, NoPipeline, Undefined, Undefined)}
  \cup {Request("collection-schema", "none", NoFilter, NoPipeline, Undefined, n) :
          n \in {Undefined, Some(0), Some(1), Some(1000), Some(1001)}}

Init ==
  /\ arg = <<>> /\ out = Pending
  /\ header = Null /\ authError = NoAuthError
  /\ invocations = <<>> /\ connections = <<>>
  /\ env \in [MONGODB_URI : BOOLEAN, MONGODB_DB : BOOLEAN, API_KEY : ApiKeys]
  /\ client = "null" /\ clientPromise = "null"
  /\ req = NoRequest /\ args = NoRequest /\ pc = "idle"
  /\ calls = <<>> /\ events = <<>> /\ response = NoResponse

\* route.ts handler: validateApiKey first; its error response is returned, and
\* only a request without one is passed to mcpHandler
handler ==
  /\ pc = "idle"
  /\ \E apiKey \in Headers :
       /\ header' = apiKey
       /\ authError' = validateApiKey(apiKey, env.API_KEY)
       /\ pc' = IF validateApiKey(apiKey, env.API_KEY) # NoAuthError THEN "done" ELSE "mcpHandler"
  /\ UNCHANGED <<arg, out, invocations, connections, env, client, clientPromise, req, args, calls, events, response>>

\* mcpHandler: the server parses the arguments with the tool's inputSchema and
\* invokes the tool
CallTool ==
  /\ pc = "mcpHandler"
  /\ \E r \in Requests :
       /\ req' = r
       /\ IF inputSchema(r).ok
          THEN args' = inputSchema(r).args /\ pc' = "start" /\ response' = NoResponse
          ELSE args' = NoRequest /\ pc' = "done" /\ response' = Response("InvalidArguments", Null)
  /\ UNCHANGED <<arg, out, header, authError, invocations, connections, env, client, clientPromise, calls, events>>

\* the handler throws after the steps done: the request ends with the error
Throws(done, error) ==
  /\ events' = events \o done
  /\ pc' = "done"
  /\ response' = error
  /\ UNCHANGED <<client, clientPromise, calls>>

\* await getDatabase(), after the steps done, up to its suspension: the check
\* of MONGODB_DB, then getMongoClient: the check of MONGODB_URI, the client
\* kept, or the connection started once
getDatabase(done) ==
  IF ~env.MONGODB_DB \/ ~env.MONGODB_URI
  THEN Throws(done \o <<"getDatabase">>, Response("ConfigurationMissing", Null))
  ELSE /\ pc' = "awaitDb"
       /\ IF client = "null" /\ clientPromise = "null"
          THEN /\ clientPromise' = "pending"
               /\ events' = events \o done \o <<"getDatabase", "connect">>
          ELSE /\ clientPromise' = clientPromise
               /\ events' = events \o done \o <<"getDatabase">>
       /\ UNCHANGED <<client, calls, response>>

\* the handler issues a call on the database client, after the steps done
Issues(done, call) ==
  /\ calls' = Append(calls, call)
  /\ events' = events \o done \o <<"query">>
  /\ pc' = "awaitQuery"
  /\ UNCHANGED <<client, clientPromise, response>>

FindStart ==
  /\ pc = "start" /\ args.tool = "find"
  /\ IF validateFilter(args.filter.v) # Ok
     THEN Throws(<<"validateFilter">>, PolicyViolation(validateFilter(args.filter.v)))
     ELSE getDatabase(<<"validateFilter">>)
  /\ UNCHANGED <<arg, out, header, authError, invocations, connections, env, req, args>>

FindQuery ==
  /\ pc = "awaitDb" /\ client = "connected" /\ args.tool = "find"
  /\ Issues(<<>>, findCall(args))
  /\ UNCHANGED <<arg, out, header, authError, invocations, connections, env, req, args>>

CountStart ==
  /\ pc = "start" /\ args.tool = "count"
  /\ IF validateFilter(args.filter.v) # Ok
     THEN Throws(<<"validateFilter">>, PolicyViolation(validateFilter(args.filter.v)))
     ELSE getDatabase(<<"validateFilter">>)
  /\ UNCHANGED <<arg, out, header, authError, invocations, connections, env, req, args>>

CountQuery ==
  /\ pc = "awaitDb" /\ client = "connected" /\ args.tool = "count"
  /\ Issues(<<>>, countCall(args))
  /\ UNCHANGED <<arg, out, header, authError, invocations, connections, env, req, args>>

AggregateStart ==
  /\ pc = "start" /\ args.tool = "aggregate"
  /\ IF validatePipeline(args.pipeline.v) # Ok
     THEN Throws(<<"validatePipeline">>, PolicyViolation(validatePipeline(args.pipeline.v)))
     ELSE getDatabase(<<"validatePipeline">>)
  /\ UNCHANGED <<arg, out, header, authError, invocations, connections, env, req, args>>

AggregateQuery ==
  /\ pc = "awaitDb" /\ client = "connected" /\ args.tool = "aggregate"
  /\ args' = [args EXCEPT !.pipeline.v = effectivePipeline(args.pipeline.v).caller]
  /\ Issues(<<>>, aggregateCall(args))
  /\ UNCHANGED <<arg, out, header, authError, invocations, connections, env, req>>

\* explainTool up to its first await: getDatabase comes before any validation
ExplainStart ==
  /\ pc = "start" /\ args.tool = "explain"
  /\ getDatabase(<<>>)
  /\ UNCHANGED <<arg, out, header, authError, invocations, connections, env, req, args>>

\* explainTool after the database handle: the parse of operationArgs for the
\* operation, the validation, then the explain call
ExplainQuery ==
  /\ pc = "awaitDb" /\ client = "connected" /\ args.tool = "explain"
  /\ IF args.operation = "find"
     THEN LET findArgs == findArgsSchema(args)
          IN IF ~findArgs.ok THEN Throws(<<"parse">>, Response("ZodError", Null))
             ELSE IF validateFilter(findArgs.args.filter.v) # Ok
             THEN Throws(<<"parse", "validateFilter">>,
                         PolicyViolation(validateFilter(findArgs.args.filter.v)))
             ELSE Issues(<<"parse", "validateFilter">>, explainFindCall(findArgs.args))
     ELSE LET aggArgs == aggregateArgsSchema(args)
          IN IF ~aggArgs.ok THEN Throws(<<"parse">>, Response("ZodError", Null))
             ELSE IF validatePipeline(aggArgs.args.pipeline.v) # Ok
             THEN Throws(<<"parse", "validatePipeline">>,
                         PolicyViolation(validatePipeline(aggArgs.args.pipeline.v)))
             ELSE Issues(<<"parse", "validatePipeline">>, explainAggregateCall(aggArgs.args))
  /\ UNCHANGED <<arg, out, header, authError, invocations, connections, env, req, args>>

ListCollectionsStart ==
  /\ pc = "start" /\ args.tool = "list-collections"
  /\ getDatabase(<<>>)
  /\ UNCHANGED <<arg, out, header, authError, invocations, connections, env, req, args>>

ListCollectionsQuery ==
  /\ pc = "awaitDb" /\ client = "connected" /\ args.tool = "list-collections"
  /\ Issues(<<>>, listCollectionsCall)
  /\ UNCHANGED <<arg, out, header, authError, invocations, connections, env, req, args>>

CollectionSchemaStart ==
  /\ pc = "start" /\ args.tool = "collection-schema"
  /\ getDatabase(<<>>)
  /\ UNCHANGED <<arg, out, header, authError, invocations, connections, env, req, args>>

CollectionSchemaQuery ==
  /\ pc = "awaitDb" /\ client = "connected" /\ args.tool = "collection-schema"
  /\ Issues(<<>>, collectionSchemaCall(args))
  /\ UNCHANGED <<arg, out, header, authError, invocations, connections, env, req, args>>

\* MongoClient.connect resolves: the then-callback stores the client
ConnectResolved ==
  /\ clientPromise = "pending"
  /\ clientPromise' = "resolved" /\ client' = "connected"
  /\ UNCHANGED <<arg, out, header, authError, invocations, connections, env, req, args, pc, calls, events, response>>

\* MongoClient.connect rejects: clientPromise stays the rejected promise
ConnectRejected ==
  /\ clientPromise = "pending"
  /\ clientPromise' = "rejected"
  /\ UNCHANGED <<arg, out, header, authError, invocations, connections, env, client, req, args, pc, calls, events, response>>

\* await getDatabase() rejects with the failure of the connection
GetDatabaseRejected ==
  /\ pc = "awaitDb" /\ clientPromise = "rejected"
  /\ Throws(<<>>, Response("UpstreamFailure", Null))
  /\ UNCHANGED <<arg, out, header, authError, invocations, connections, env, req, args>>

\* the database answers the call: the handler returns its content
DbReturns ==
  /\ pc = "awaitQuery"
  /\ pc' = "done" /\ response' = Response("ok", Null)
  /\ UNCHANGED <<arg, out, header, authError, invocations, connections, env, client, clientPromise, req, args, calls, events>>

\* the database call fails (time ceiling, connection loss, query error)
DbFails ==
  /\ pc = "awaitQuery"
  /\ pc' = "done" /\ response' = Response("UpstreamFailure", Null)
  /\ UNCHANGED <<arg, out, header, authError, invocations, connections, env, client, clientPromise, req, args, calls, events>>

\* the response is sent; the process goes on to the next request
Return ==
  /\ pc = "done"
  /\ pc' = "idle" /\ req' = NoRequest /\ args' = NoRequest
  /\ calls' = <<>> /\ events' = <<>> /\ response' = NoResponse
  /\ header' = Null /\ authError' = NoAuthError
  /\ UNCHANGED <<arg, out, invocations, connections, env, client, clientPromise>>

Next ==
  \/ handler
  \/ CallTool
  \/ FindStart \/ FindQuery
  \/ CountStart \/ CountQuery
  \/ AggregateStart \/ AggregateQuery
  \/ ExplainStart \/ ExplainQuery
  \/ ListCollectionsStart \/ ListCollectionsQuery
  \/ CollectionSchemaStart \/ CollectionSchemaQuery
  \/ ConnectResolved \/ ConnectRejected \/ GetDatabaseRejected
  \/ DbReturns \/ DbFails
  \/ Return

Spec == Init /\ [][Next]_vars

(***************************************************************************)
(* Claims                                                                  *)
(***************************************************************************)
ScriptingOperators == {"$where", "$function", "$accumulator"}
WriteStages == {"$out", "$merge"}

\* the first element of a sequence that is in a set, Null when there is none
RECURSIVE FirstIn(_, _)
FirstIn(seq, S) ==
  IF seq = <<>> THEN Null ELSE IF Head(seq) \in S THEN Head(seq) ELSE FirstIn(Tail(seq), S)

\* C1: validateFilter fails on every filter that has $where, $function or
\* $accumulator as a key at any depth, naming the first such key of the filter in
\* depth-first order, and succeeds on every filter that has none of them.
C1_ValidateFilter ==
  out # Pending =>
    IF KeysIn(arg) \cap ScriptingOperators # {}
    THEN /\ out.status = "ProhibitedOperator"
         /\ out.key \in KeysIn(arg) \cap ScriptingOperators
         /\ out.key = FirstIn(PreorderKeys(arg), ScriptingOperators)
    ELSE out = Ok

\* a forbidden key inside an array element inside $and, after validation
C1_Witness ==
  /\ arg = MapV(<<"$and">>, <<SeqV(<<MapV(<<"$where">>, <<StrV>>)>>)>>)
  /\ out = Thrown("ProhibitedOperator", "$where")

\* some stage has one of the keys K as a top-level key
TopLevelKey(pipeline, K) ==
  \E i \in 1..Len(pipeline) : \E j \in 1..Len(pipeline[i].keys) : pipeline[i].keys[j] \in K
\* some key of K occurs anywhere in some stage
AnyKey(pipeline, K) == \E i \in 1..Len(pipeline) : KeysIn(pipeline[i]) \cap K # {}
\* some $lookup stage whose argument is a mapping with the key pipeline
LookupWithPipeline(pipeline) ==
  \E i \in 1..Len(pipeline) :
    /\ HasKey(pipeline[i], "$lookup")
    /\ HasKey(Get(pipeline[i], "$lookup"), "pipeline")
\* every $lookup argument is a mapping (the localField/foreignField form) or empty
LookupsWellFormed(pipeline) ==
  \A i \in 1..Len(pipeline) :
    HasKey(pipeline[i], "$lookup") =>
      Get(pipeline[i], "$lookup").t \in {"map", "seq", "null"}

\* C3: validatePipeline fails on every pipeline with $out or $merge as a
\* top-level key of a stage, and succeeds on every pipeline in which these keys
\* occur nested only and that has no other violation (a scripting operator the
\* pipeline scan looks for, a $lookup with a pipeline, a malformed $lookup).
C3_WriteStagesTopLevelOnly ==
  out # Pending =>
    /\ TopLevelKey(arg, WriteStages) => out.status # "ok"
    /\ ( /\ ~TopLevelKey(arg, WriteStages)
         /\ ~AnyKey(arg, {"$function", "$accumulator"})
         /\ ~LookupWithPipeline(arg)
         /\ LookupsWellFormed(arg) ) => out = Ok

\* $out nested below $match, accepted
C3_Witness ==
  /\ arg = <<MapV(<<"$match">>, <<MapV(<<"$out">>, <<StrV>>)>>)>>
  /\ out = Ok

C6_Clamp ==
  /\ out.fn = "applyLimit" =>
       out.value = IF ~arg.has \/ arg.n <= 0 THEN 10 ELSE IF arg.n > 100 THEN 100 ELSE arg.n
  /\ out.fn = "applySampleSize" =>
       out.value = IF ~arg.has \/ arg.n <= 0 THEN 100 ELSE IF arg.n > 1000 THEN 1000 ELSE arg.n

\* a requested limit above the maximum, clamped
C6_Witness == out.fn = "applyLimit" /\ arg = Some(101) /\ out.value = 100

\* the calls of the request in flight
CallsOf == {calls[i] : i \in 1..Len(calls)}
Happened(e) == \E i \in 1..Len(events) : events[i] = e

\* C2: no pipeline with $where, $function or $accumulator at any depth of a
\* stage is passed to the database client by aggregate or by explain.
C2_ScriptingOperatorsRejectedInPipelines ==
  \A c \in CallsOf :
    (args.tool \in {"aggregate", "explain"} /\ c.op = "aggregate")
      => ~AnyKey(c.pipeline, ScriptingOperators)

RECURSIVE OutputCapFrom(_, _, _)
OutputCapFrom(pipeline, i, cap) ==
  IF i > Len(pipeline) THEN cap
  ELSE LET stage == pipeline[i]
           capped(k) == IF cap.has THEN Some(Min(cap.n, k)) ELSE Some(k)
       IN IF HasKey(stage, "$limit")
          THEN OutputCapFrom(pipeline, i + 1, capped(Get(stage, "$limit").n))
          ELSE IF HasKey(stage, "$sample")
          THEN OutputCapFrom(pipeline, i + 1, capped(Get(Get(stage, "$sample"), "size").n))
          ELSE IF HasKey(stage, "$unwind") THEN OutputCapFrom(pipeline, i + 1, Undefined)
          ELSE OutputCapFrom(pipeline, i + 1, cap)
OutputCap(pipeline) == OutputCapFrom(pipeline, 1, Undefined)

\* C7: every call that returns documents is bounded: the limit of a find is in
\* 1..100, the pipeline of an aggregate puts out at most 100 documents, the
\* $sample of collection-schema is of a size in 1..1000.
C7_EveryCallBounded ==
  \A c \in CallsOf :
    /\ args.tool = "find" => c.limit.has /\ 1 <= c.limit.n /\ c.limit.n <= 100
    /\ args.tool = "aggregate" =>
         OutputCap(c.pipeline).has /\ 1 <= OutputCap(c.pipeline).n /\ OutputCap(c.pipeline).n <= 100
    /\ args.tool = "collection-schema" =>
         OutputCap(c.pipeline).has /\ 1 <= OutputCap(c.pipeline).n /\ OutputCap(c.pipeline).n <= 1000

\* C8: the pipeline aggregate sends is the caller's stages followed by one
\* {$limit: 100} when no stage of the caller has the key $limit, the caller's
\* stages as they are otherwise; the caller's array is left as it was.
C8_LimitAppendedOnce ==
  (req.tool = "aggregate" /\ calls # <<>>) =>
    /\ Len(calls) = 1
    /\ calls[1].pipeline = IF TopLevelKey(req.pipeline.v, {"$limit"})
                           THEN req.pipeline.v
                           ELSE req.pipeline.v \o <<MapV(<<"$limit">>, <<NumV(100)>>)>>
    /\ args.pipeline.v = req.pipeline.v

\* an aggregate whose pipeline had no $limit, sent with one appended
C8_Witness ==
  /\ req.tool = "aggregate" /\ calls # <<>>
  /\ req.pipeline.v = <<MatchStage("status"), MapV(<<"$unwind">>, <<StrV>>)>>
  /\ calls[1].pipeline = req.pipeline.v \o <<LimitStage(100)>>

\* C9: every call on the database client carries maxTimeMS = 30000.
C9_TimeCeilingOnEveryCall ==
  \A c \in CallsOf : c.maxTimeMS.has /\ c.maxTimeMS.n = 30000

\* the constructs the validators are there to reject
ForbiddenFilter(f) == KeysIn(f) \cap ScriptingOperators # {}
ForbiddenPipeline(p) ==
  \/ TopLevelKey(p, WriteStages)
  \/ AnyKey(p, {"$function", "$accumulator"})
  \/ LookupWithPipeline(p)
RequestForbidden ==
  \/ args.tool \in {"find", "count"} /\ ForbiddenFilter(args.filter.v)
  \/ args.tool = "aggregate" /\ ForbiddenPipeline(args.pipeline.v)
  \/ args.tool = "explain" /\ args.operation = "find" /\ ForbiddenFilter(args.filter.v)
  \/ args.tool = "explain" /\ args.operation = "aggregate" /\ ForbiddenPipeline(args.pipeline.v)

\* C10: a request with a forbidden construct is rejected before getDatabase
\* and before any call: it never reaches the client and ends with the
\* PolicyViolation.
C10_RejectedBeforeAnyDatabaseUse ==
  RequestForbidden =>
    /\ calls = <<>>
    /\ ~Happened("getDatabase") /\ ~Happened("connect")
    /\ pc = "done" => response.kind = "PolicyViolation"

(***************************************************************************)
(* explain                                                                 *)
(***************************************************************************)
\* the request ended, and neither the configuration nor the database failed
EndedWithoutUpstreamFailure ==
  pc = "done" /\ response.kind \notin {"ConfigurationMissing", "UpstreamFailure"}

\* C11: an explain request that passed explainSchema is validated and
\* explained in its mode: with operation "aggregate" and operationArgs
\* {pipeline: P}, P non-empty and free of forbidden constructs, the handler
\* validates P and issues the explain of the aggregate of P; with operation
\* "find", it validates the filter and issues the explain of the find; the
\* request ends with the execution plan.
C11_ExplainInItsMode ==
  /\ ( /\ req.tool = "explain" /\ req.operation = "aggregate"
       /\ req.pipeline.has /\ ~req.filter.has /\ ~req.limit.has
       /\ req.pipeline.v # <<>> /\ ~ForbiddenPipeline(req.pipeline.v)
       /\ inputSchema(req).ok
       /\ EndedWithoutUpstreamFailure )
     => /\ response.kind = "ok"
        /\ Happened("validatePipeline")
        /\ calls = <<Call("aggregate", TRUE, EmptyMap, req.pipeline.v, Undefined, Some(30000))>>
  /\ ( /\ req.tool = "explain" /\ req.operation = "find"
       /\ ~req.pipeline.has /\ ~ForbiddenFilter(filterDefault(req.filter).v)
       /\ inputSchema(req).ok
       /\ EndedWithoutUpstreamFailure )
     => /\ response.kind = "ok"
        /\ Happened("validateFilter")
        /\ calls = <<Call("find", TRUE, filterDefault(req.filter).v, <<>>, req.limit, Some(30000))>>

(***************************************************************************)
(* API key                                                                 *)
(***************************************************************************)
\* API_KEY is set to a key: the unset and the empty variable are not
KeyConfigured == env.API_KEY \notin {Null, ""}
\* the request has been passed to mcpHandler
Forwarded == pc \in {"mcpHandler", "start", "awaitDb", "awaitQuery"} \/ req # NoRequest
\* a tool handler has been given the request or has acted for it
ToolInvoked == args # NoRequest \/ calls # <<>> \/ events # <<>>

\* C12: a request is passed to mcpHandler only when API_KEY is configured and
\* the X-API-Key header equals it; any other request is answered without a
\* tool being invoked, with status 500 when API_KEY is not configured,
\* whatever the header, and with status 401 when the header is missing or
\* differs from the key.
C12_NoToolWithoutValidKey ==
  pc # "idle" =>
    /\ Forwarded => KeyConfigured /\ header = env.API_KEY
    /\ ~Forwarded =>
         /\ ~ToolInvoked
         /\ ~KeyConfigured => authError.status = 500
         /\ KeyConfigured => authError.status = 401 /\ header # env.API_KEY
    /\ ToolInvoked => Forwarded

\* a request with a key that is not the configured one, answered 401
C12_Witness ==
  /\ pc = "done" /\ env.API_KEY = "secret" /\ header = "guess"
  /\ authError.status = 401 /\ ~ToolInvoked

(***************************************************************************)
(* listCollections.ts: the names a list-collections request returns        *)
(***************************************************************************)
\* a collection name is the sequence of its characters
SystemDot == <<"s", "y", "s", "t", "e", "m", ".">>
SystemIndexes == SystemDot \o <<"i", "n", "d", "e", "x", "e", "s">>
SystemViews == SystemDot \o <<"v", "i", "e", "w", "s">>
Systems == <<"s", "y", "s", "t", "e", "m", "s">>
OrdersLower == <<"o", "r", "d", "e", "r", "s">>
OrdersUpper == <<"O", "r", "d", "e", "r", "s">>
Order == <<"o", "r", "d", "e", "r">>

\* the UTF-16 code unit of a character
charCodeAt ==
  ("." :> 46) @@ ("O" :> 79) @@ ("a" :> 97) @@ ("d" :> 100) @@ ("e" :> 101) @@
  ("i" :> 105) @@ ("m" :> 109) @@ ("n" :> 110) @@ ("o" :> 111) @@ ("r" :> 114) @@
  ("s" :> 115) @@ ("t" :> 116) @@ ("v" :> 118) @@ ("w" :> 119) @@ ("x" :> 120) @@
  ("y" :> 121)

\* String.prototype.startsWith
startsWith(s, prefix) ==
  Len(s) >= Len(prefix) /\ SubSeq(s, 1, Len(prefix)) = prefix

\* isSystemCollection with the prefix "system", without its dot
isSystemCollectionWithoutDot(name) == startsWith(name, SubSeq(SystemDot, 1, 6))

isSystemCollection(name) == startsWith(name, SystemDot)

\* the order of Array.prototype.sort without a comparator: strings by their
\* code units, a proper prefix before the longer string
RECURSIVE lessFrom(_, _, _)
lessFrom(a, b, i) ==
  IF i > Len(a) THEN i <= Len(b)
  ELSE IF i > Len(b) THEN FALSE
  ELSE IF a[i] # b[i] THEN charCodeAt[a[i]] < charCodeAt[b[i]]
  ELSE lessFrom(a, b, i + 1)
less(a, b) == lessFrom(a, b, 1)

RECURSIVE insertSorted(_, _)
insertSorted(x, xs) ==
  IF xs = <<>> THEN <<x>>
  ELSE IF less(x, Head(xs)) THEN <<x>> \o xs
  ELSE <<Head(xs)>> \o insertSorted(x, Tail(xs))
RECURSIVE sort(_)
sort(xs) == IF xs = <<>> THEN <<>> ELSE insertSorted(Head(xs), sort(Tail(xs)))

textContent(text) == [type |-> "text", text |-> text]

\* what listCollectionsTool returns for the documents the database listed (here
\* their names): the text is held as its message, its count and its list
listCollectionsContent(collections) ==
  LET userCollections == sort(SelectSeq(collections, LAMBDA name : ~isSystemCollection(name)))
  IN IF Len(userCollections) = 0
     THEN <<textContent([message |-> "No collections found", count |-> 0, list |-> <<>>])>>
     ELSE <<textContent([message |-> "Found", count |-> Len(userCollections),
                         list |-> userCollections])>>

MaxCollections == 3
CollectionNames == {SystemIndexes, SystemViews, Systems, OrdersLower, OrdersUpper, Order}
\* the database lists each collection once, in any order
Listings(n) ==
  UNION {{l \in [1..k -> CollectionNames] : \A i, j \in 1..k : l[i] = l[j] => i = j} : k \in 0..n}

InitList == arg \in Listings(MaxCollections) /\ out = NotCalled /\ Quiet
ListCollectionsReturns ==
  /\ out = NotCalled
  /\ out' = listCollectionsContent(arg)
  /\ UNCHANGED <<arg, toolVars>>
NextList == ListCollectionsReturns
SpecList == InitList /\ [][NextList]_vars

\* the names of a listing that do not begin with "system."
BeginsWithSystemDot(name) ==
  Len(name) >= 7 /\ \A k \in 1..7 : name[k] = SystemDot[k]
UserNames == {arg[i] : i \in {j \in 1..Len(arg) : ~BeginsWithSystemDot(arg[j])}}
\* a before b in ascending order of code units
Ascending(a, b) ==
  \/ \E k \in 1..Len(a) : /\ k <= Len(b)
                          /\ \A h \in 1..(k - 1) : a[h] = b[h]
                          /\ charCodeAt[a[k]] < charCodeAt[b[k]]
  \/ Len(a) < Len(b) /\ \A h \in 1..Len(a) : a[h] = b[h]

\* C13: list-collections returns one content block: the names the database
\* listed that do not begin with "system.", each once, in ascending order,
\* with a count equal to the number of names listed; when no name remains the
\* block is the "No collections found" message; for {system.indexes, orders}
\* the block lists orders alone.
C13_UserCollectionsSorted ==
  out # NotCalled =>
    /\ Len(out) = 1 /\ out[1].type = "text"
    /\ IF UserNames = {}
       THEN out[1].text.message = "No collections found" /\ out[1].text.list = <<>>
       ELSE /\ out[1].text.message = "Found"
            /\ out[1].text.count = Cardinality(UserNames)
            /\ Len(out[1].text.list) = out[1].text.count
            /\ {out[1].text.list[i] : i \in 1..Len(out[1].text.list)} = UserNames
            /\ \A i, j \in 1..Len(out[1].text.list) :
                 i < j => Ascending(out[1].text.list[i], out[1].text.list[j])
    /\ arg = <<SystemIndexes, OrdersLower>> => out[1].text.list = <<OrdersLower>>

\* a listing with a system collection and names out of order
C13_Witness ==
  /\ arg = <<OrdersLower, SystemIndexes, OrdersUpper>>
  /\ out # NotCalled /\ out[1].text.list = <<OrdersUpper, OrdersLower>>

(***************************************************************************)
(* collectionSchema.ts: the schema inferred from the sampled documents     *)
(***************************************************************************)
\* values of a document beside the JSON ones: a number given as its double
\* (HalvesV(3) is 1.5), and the instances getBsonType tells apart
HalvesV(twice) == [t |-> "halves", n |-> twice, keys |-> <<>>, items |-> <<>>]
BoolV == [t |-> "bool", n |-> 0, keys |-> <<>>, items |-> <<>>]
BigIntV == [t |-> "bigint", n |-> 0, keys |-> <<>>, items |-> <<>>]
ObjectIdV == [t |-> "ObjectId", n |-> 0, keys |-> <<>>, items |-> <<>>]
DateV == [t |-> "Date", n |-> 0, keys |-> <<>>, items |-> <<>>]
RegExpV == [t |-> "RegExp", n |-> 0, keys |-> <<>>, items |-> <<>>]
\* a typed array (a Buffer): its own enumerable properties are its indices
Uint8ArrayV(bytes) ==
  [t |-> "view", n |-> 0, keys |-> SubSeq(<<"0", "1", "2", "3">>, 1, Len(bytes)),
   items |-> bytes]

\* typeof value
typeof(value) ==
  CASE value.t \in {"null", "seq", "map", "ObjectId", "Date", "RegExp", "view"} -> "object"
    [] value.t \in {"num", "halves"} -> "number"
    [] value.t = "bool" -> "boolean"
    [] value.t = "str" -> "string"
    [] value.t = "bigint" -> "bigint"
    [] OTHER -> "undefined"

isInteger(value) == value.t = "num" \/ (value.t = "halves" /\ value.n % 2 = 0)

getBsonType(value) ==
  IF value.t = "null" THEN "null"
  ELSE IF value.t = "undefined" THEN "undefined"
  ELSE IF value.t = "ObjectId" THEN "ObjectId"
  ELSE IF value.t = "Date" THEN "Date"
  ELSE IF value.t = "RegExp" THEN "RegExp"
  ELSE IF value.t = "view" THEN "Binary"
  ELSE IF value.t = "seq" THEN "Array"
  ELSE IF typeof(value) = "object" THEN "Object"
  ELSE IF typeof(value) = "number" THEN (IF isInteger(value) THEN "Int" ELSE "Double")
  ELSE IF typeof(value) = "boolean" THEN "Boolean"
  ELSE IF typeof(value) = "string" THEN "String"
  ELSE IF typeof(value) = "bigint" THEN "Long"
  ELSE "Unknown"

\* new Map(), and Map.prototype.set
NewMap == [k \in {} |-> Null]
MapSet(map, key, value) ==
  [k \in DOMAIN map \cup {key} |-> IF k = key THEN value ELSE map[k]]
\* every entry of nested set into fields
MapSetAll(fields, nested) ==
  [k \in DOMAIN fields \cup DOMAIN nested |-> IF k \in DOMAIN nested THEN nested[k] ELSE fields[k]]

\* the condition under which extractFields goes into a value
isNested(value) ==
  /\ value.t # "null"
  /\ typeof(value) = "object"
  /\ value.t # "seq"
  /\ value.t \notin {"ObjectId", "Date", "RegExp"}

\* extractFields: the entries of doc from the i-th on, set into fields
RECURSIVE extractFields(_, _), extractFieldsFrom(_, _, _, _)
extractFieldsFrom(doc, prefix, i, fields) ==
  IF i > Len(doc.keys) THEN fields
  ELSE LET key == doc.keys[i]
           value == doc.items[i]
           fieldPath == IF prefix # "" THEN prefix \o "." \o key ELSE key
           set == MapSet(fields, fieldPath, getBsonType(value))
       IN extractFieldsFrom(doc, prefix, i + 1,
            IF isNested(value) THEN MapSetAll(set, extractFields(value, fieldPath)) ELSE set)
extractFields(doc, prefix) == extractFieldsFrom(doc, prefix, 1, NewMap)

\* percentage with the fraction cut off instead of rounded
percentageTruncated(totalOccurrences, totalDocs) == (totalOccurrences * 100) \div totalDocs

\* Math.round((totalOccurrences / totalDocs) * 100): the integer nearest to
\* the quotient, the half rounded up
percentage(totalOccurrences, totalDocs) ==
  (2 * totalOccurrences * 100 + totalDocs) \div (2 * totalDocs)

\* typeCounts.set(type, (typeCounts.get(type) || 0) + 1)
countType(typeCounts, type) ==
  MapSet(typeCounts, type, (IF type \in DOMAIN typeCounts THEN typeCounts[type] ELSE 0) + 1)

\* the first loop of inferSchema, from the i-th document on
RECURSIVE collectFrom(_, _, _)
collectFrom(documents, i, fieldStats) ==
  IF i > Len(documents) THEN fieldStats
  ELSE LET fields == extractFields(documents[i], "")
       IN collectFrom(documents, i + 1,
            [fieldPath \in DOMAIN fieldStats \cup DOMAIN fields |->
               IF fieldPath \in DOMAIN fields
               THEN countType(IF fieldPath \in DOMAIN fieldStats THEN fieldStats[fieldPath] ELSE NewMap,
                              fields[fieldPath])
               ELSE fieldStats[fieldPath]])

\* Array.from(typeCounts.values()).reduce((a, b) => a + b, 0)
RECURSIVE sumOver(_, _)
sumOver(typeCounts, types) ==
  IF types = {} THEN 0
  ELSE LET type == CHOOSE x \in types : TRUE
       IN typeCounts[type] + sumOver(typeCounts, types \ {type})

\* inferSchema; types is held as the set of the names in the sorted array
inferSchema(documents) ==
  IF Len(documents) = 0 THEN NewMap
  ELSE LET totalDocs == Len(documents)
           fieldStats == collectFrom(documents, 1, NewMap)
       IN [fieldPath \in DOMAIN fieldStats |->
             [types |-> DOMAIN fieldStats[fieldPath],
              percentage |-> percentage(sumOver(fieldStats[fieldPath], DOMAIN fieldStats[fieldPath]),
                                        totalDocs)]]

\* the documents a sample is drawn from
MaxDocs == 4
DocIntA == MapV(<<"a">>, <<NumV(1)>>)
DocStringA == MapV(<<"a">>, <<StrV>>)
DocDoubleA == MapV(<<"a">>, <<HalvesV(3)>>)
DocNestedA == MapV(<<"a">>, <<MapV(<<"b">>, <<HalvesV(4)>>)>>)
DocStringB == MapV(<<"b">>, <<StrV>>)
SampleDocuments ==
  {DocIntA, DocStringA, DocDoubleA, DocNestedA, DocStringB,
   MapV(<<"b", "a">>, <<NumV(7), MapV(<<"b">>, <<StrV>>)>>)}
Samples(n) == UNION {[1..k -> SampleDocuments] : k \in 0..n}

InitSchema == arg \in Samples(MaxDocs) /\ out = NotCalled /\ Quiet
InferSchemaCall ==
  /\ out = NotCalled
  /\ out' = [fn |-> "inferSchema", value |-> inferSchema(arg)]
  /\ UNCHANGED <<arg, toolVars>>
NextSchema == InferSchemaCall
SpecSchema == InitSchema /\ [][NextSchema]_vars

\* the paths a sample can have, as sequences of keys, and their dotted form
KeyPaths == {<<"a">>, <<"b">>, <<"a", "a">>, <<"a", "b">>, <<"b", "a">>, <<"b", "b">>}
Dotted(ks) == IF Len(ks) = 1 THEN ks[1] ELSE ks[1] \o "." \o ks[2]
\* the document has a value at the path
Present(doc, ks) ==
  /\ HasKey(doc, ks[1])
  /\ Len(ks) = 2 => HasKey(Get(doc, ks[1]), ks[2])
ValueAt(doc, ks) == IF Len(ks) = 1 THEN Get(doc, ks[1]) ELSE Get(Get(doc, ks[1]), ks[2])
\* the kind of a value of a sample: a whole number is an Int, a fractional
\* number a Double
KindOf(v) ==
  CASE v.t = "num" -> "Int"
    [] v.t = "halves" -> IF \E k \in 0..4 : v.n = 2 * k THEN "Int" ELSE "Double"
    [] v.t = "str" -> "String"
    [] v.t = "map" -> "Object"
DocsWith(ks) == {i \in 1..Len(arg) : Present(arg[i], ks)}

\* C14: the schema has a path exactly when some sampled document has a value
\* there; its kinds are the kinds of the values the documents have at the path,
\* a whole number an Int and a fractional one a Double; a document counts once
\* for a path, and the percentage is the number of documents having the path,
\* over the number sampled, times 100, rounded to the nearest integer. A path
\* holding an Int in 3 of 4 documents and a String in the 4th has the kinds
\* {Int, String} and 100%.
C14_SchemaTally ==
  out.fn = "inferSchema" =>
    /\ DOMAIN out.value = {Dotted(ks) : ks \in {p \in KeyPaths : DocsWith(p) # {}}}
    /\ \A ks \in KeyPaths :
         DocsWith(ks) # {} =>
           LET field == out.value[Dotted(ks)]
               n == Cardinality(DocsWith(ks))
           IN /\ field.types = {KindOf(ValueAt(arg[i], ks)) : i \in DocsWith(ks)}
              /\ 2 * Len(arg) * field.percentage <= 200 * n + Len(arg)
              /\ 2 * Len(arg) * field.percentage > 200 * n - Len(arg)
    /\ arg = <<DocIntA, DocIntA, DocStringA, DocIntA>> =>
         out.value["a"] = [types |-> {"Int", "String"}, percentage |-> 100]
    /\ arg = <<DocNestedA>> => out.value["a.b"].types = {"Int"}
    /\ arg = <<DocDoubleA>> => out.value["a"].types = {"Double"}

\* a path holding an Int in three documents and a String in the fourth
C14_Witness ==
  /\ out.fn = "inferSchema"
  /\ arg = <<DocIntA, DocIntA, DocStringA, DocIntA>>
  /\ out.value["a"] = [types |-> {"Int", "String"}, percentage |-> 100]

(***************************************************************************)
(* collectionSchema.ts: the presence of one path over a sample, by counts  *)
(***************************************************************************)
\* arg holds, for one field path, the documents inferSchema has gone through
\* and those of them extractFields found the path in
NoDocuments == [totalDocs |-> 0, totalOccurrences |-> 0]

InitPresence == arg = NoDocuments /\ out = NotCalled /\ Quiet

\* the sample has at most applySampleSize(sampleSize) documents
DocumentWithPath ==
  /\ out = NotCalled /\ arg.totalDocs < applySampleSize(Some(maxSampleSize))
  /\ arg' = [totalDocs |-> arg.totalDocs + 1, totalOccurrences |-> arg.totalOccurrences + 1]
  /\ UNCHANGED <<out, toolVars>>
DocumentWithoutPath ==
  /\ out = NotCalled /\ arg.totalDocs < applySampleSize(Some(maxSampleSize))
  /\ arg' = [totalDocs |-> arg.totalDocs + 1, totalOccurrences |-> arg.totalOccurrences]
  /\ UNCHANGED <<out, toolVars>>
\* the second loop of inferSchema reaches the path: fieldStats has it, so some
\* document had it
PercentageOfPath ==
  /\ out = NotCalled /\ arg.totalOccurrences >= 1
  /\ out' = [fn |-> "percentage", value |-> percentage(arg.totalOccurrences, arg.totalDocs)]
  /\ UNCHANGED <<arg, toolVars>>
NextPresence == DocumentWithPath \/ DocumentWithoutPath \/ PercentageOfPath
SpecPresence == InitPresence /\ [][NextPresence]_vars

\* C15: for a sample of 1 to 1000 documents, the percentage of every path of
\* the schema is an integer p with 0 < p <= 100: a path of the schema is never
\* given 0%.
C15_PercentageInRange ==
  out.fn = "percentage" => out.value \in 1..100

(***************************************************************************)
(* collectionSchema.ts: the paths extractFields takes from one document    *)
(***************************************************************************)
MaxDocNodes == 3
DocumentKeys == {"a", "b"}
DocumentScalars ==
  {NumV(1), StrV, NullV, BoolV, BigIntV, ObjectIdV, DateV, RegExpV, Uint8ArrayV(<<NumV(7)>>)}
Documents(n) == MapsUpTo(DocumentKeys, DocumentScalars, n)

InitExtract == arg \in Documents(MaxDocNodes) /\ out = NotCalled /\ Quiet
ExtractFieldsCall ==
  /\ out = NotCalled
  /\ out' = [fn |-> "extractFields", value |-> extractFields(arg, "")]
  /\ UNCHANGED <<arg, toolVars>>
NextExtract == ExtractFieldsCall
SpecExtract == InitExtract /\ [][NextExtract]_vars

\* the nested paths a document of the model can have, as sequences of keys
\* (the keys of the documents and the index of a typed array)
NestedKeyPaths ==
  LET K == DocumentKeys \cup {"0"}
  IN {<<h, k>> : h \in K, k \in K} \cup {<<g, h, k>> : g \in K, h \in K, k \in K}
RECURSIVE JoinDots(_)
JoinDots(ks) == IF Len(ks) = 1 THEN ks[1] ELSE JoinDots(SubSeq(ks, 1, Len(ks) - 1)) \o "." \o ks[Len(ks)]

\* C16: extractFields goes only into values classified Object: every nested
\* path it reports lies below a path it reports with the kind Object, never
\* below a value classified Array, ObjectId, Date, RegExp or Binary, below
\* null or below a scalar.
C16_DescendsOnlyIntoObjects ==
  out.fn = "extractFields" =>
    \A ks \in NestedKeyPaths :
      JoinDots(ks) \in DOMAIN out.value =>
        /\ JoinDots(SubSeq(ks, 1, Len(ks) - 1)) \in DOMAIN out.value
        /\ out.value[JoinDots(SubSeq(ks, 1, Len(ks) - 1))] = "Object"

(***************************************************************************)
(* client.ts: concurrent invocations of getDatabase over the shared client *)
(***************************************************************************)
\* Here client is "null" or the name of the MongoClient instance it holds, and
\* clientPromise is "null" or the name of the promise it holds; the k-th call
\* of MongoClient.connect returns the k-th promise, which resolves with the
\* k-th instance or rejects with the k-th failure.
MaxInvocations == 4
Invocations == 1..MaxInvocations

PromiseOf(k) == "promise" \o ToString(k)
ClientOf(k) == "client" \o ToString(k)
FailureOf(k) == "failure" \o ToString(k)

\* an invocation: idle, or suspended in await getMongoClient() on a promise
\* (the k-th connection, or the settled promise of an async function that
\* returned the client), or holding the Db of a client, or failed
Invocation(at, promise, value) == [pc |-> at, awaits |-> promise, value |-> value]
Idle == Invocation("idle", 0, Null)

\* the guard of MongoClient.connect without the look at clientPromise
connectIsDueWithoutPromise(c, promise) == c = "null"

\* getMongoClient calls MongoClient.connect: no client and no clientPromise
connectIsDue(c, promise) == c = "null" /\ promise = "null"

InitClient ==
  /\ arg = <<>> /\ out = NotCalled /\ header = Null /\ authError = NoAuthError
  /\ env = EnvSet /\ client = "null" /\ clientPromise = "null"
  /\ invocations = [i \in Invocations |-> Idle] /\ connections = <<>>
  /\ req = NoRequest /\ args = NoRequest /\ pc = "idle"
  /\ calls = <<>> /\ events = <<>> /\ response = NoResponse

\* an invocation calls getDatabase and runs up to its await: the check of
\* MONGODB_DB, then getMongoClient up to its return, without interruption
GetDatabaseCalled(i) ==
  /\ invocations[i].pc = "idle"
  /\ IF ~env.MONGODB_DB \/ ~env.MONGODB_URI
     THEN /\ invocations' = [invocations EXCEPT ![i] = Invocation("failed", 0, "ConfigurationMissing")]
          /\ UNCHANGED <<connections, clientPromise>>
     ELSE IF client # "null"
     THEN /\ invocations' = [invocations EXCEPT ![i] = Invocation("await", 0, client)]
          /\ UNCHANGED <<connections, clientPromise>>
     ELSE IF connectIsDue(client, clientPromise)
     THEN /\ connections' = Append(connections, "pending")
          /\ clientPromise' = PromiseOf(Len(connections) + 1)
          /\ invocations' = [invocations EXCEPT ![i] = Invocation("await", Len(connections) + 1, Null)]
     ELSE /\ invocations' = [invocations EXCEPT ![i] = Invocation("await", Len(connections), Null)]
          /\ UNCHANGED <<connections, clientPromise>>
  /\ UNCHANGED <<arg, out, header, authError, env, client, req, args, pc, calls, events, response>>

\* the k-th connection is established: the then-callback stores its client
ConnectionResolves(k) ==
  /\ k \in 1..Len(connections) /\ connections[k] = "pending"
  /\ connections' = [connections EXCEPT ![k] = "resolved"]
  /\ client' = ClientOf(k)
  /\ UNCHANGED <<arg, out, header, authError, invocations, env, clientPromise, req, args, pc,
                 calls, events, response>>

\* the k-th connection fails: clientPromise stays the rejected promise
ConnectionRejects(k) ==
  /\ k \in 1..Len(connections) /\ connections[k] = "pending"
  /\ connections' = [connections EXCEPT ![k] = "rejected"]
  /\ UNCHANGED <<arg, out, header, authError, invocations, env, client, clientPromise, req,
                 args, pc, calls, events, response>>

\* await getMongoClient() resumes: the invocation has the Db of the client the
\* promise resolved with, or throws the failure it rejected with
AwaitResumes(i) ==
  /\ invocations[i].pc = "await"
  /\ LET k == invocations[i].awaits
     IN IF k = 0
        THEN invocations' = [invocations EXCEPT ![i] = Invocation("db", 0, invocations[i].value)]
        ELSE /\ connections[k] # "pending"
             /\ invocations' =
                  [invocations EXCEPT ![i] =
                     IF connections[k] = "resolved" THEN Invocation("db", k, ClientOf(k))
                     ELSE Invocation("failed", k, FailureOf(k))]
  /\ UNCHANGED <<arg, out, header, authError, connections, env, client, clientPromise, req,
                 args, pc, calls, events, response>>

\* the invocation ends; the process takes another one in its place
InvocationEnds(i) ==
  /\ invocations[i].pc \in {"db", "failed"}
  /\ invocations' = [invocations EXCEPT ![i] = Idle]
  /\ UNCHANGED <<arg, out, header, authError, connections, env, client, clientPromise, req,
                 args, pc, calls, events, response>>

NextClient ==
  \/ \E i \in Invocations : GetDatabaseCalled(i)
  \/ \E k \in 1..Len(connections) : ConnectionResolves(k)
  \/ \E k \in 1..Len(connections) : ConnectionRejects(k)
  \/ \E i \in Invocations : AwaitResumes(i)
  \/ \E i \in Invocations : InvocationEnds(i)
SpecClient == InitClient /\ [][NextClient]_vars

\* C17: MongoClient.connect is called at most once in the life of the process,
\* however the invocations of getDatabase interleave: the invocations that
\* wait for a connection wait for the same one, the invocations that have a
\* client have the same instance, and after the connection has failed no other
\* is started and every invocation fails with the failure of that one.
C17_ConnectAtMostOnce ==
  /\ Len(connections) <= 1
  /\ \A i, j \in Invocations :
       /\ (invocations[i].pc = "await" /\ invocations[i].awaits # 0
           /\ invocations[j].pc = "await" /\ invocations[j].awaits # 0)
          => invocations[i].awaits = invocations[j].awaits
       /\ (invocations[i].pc = "db" /\ invocations[j].pc = "db")
          => invocations[i].value = invocations[j].value
  /\ \A i \in Invocations :
       /\ invocations[i].pc = "db" => invocations[i].value = client
       /\ (connections # <<>> /\ connections[1] = "rejected") =>
            /\ invocations[i].pc # "db"
            /\ invocations[i].pc = "failed" => invocations[i].value = "failure1"

\* three invocations wait for the one pending connection
C17_Witness ==
  /\ connections = <<"pending">>
  /\ \E i, j, h \in Invocations :
       /\ i # j /\ i # h /\ j # h
       /\ \A x \in {i, j, h} : invocations[x].pc = "await" /\ invocations[x].awaits = 1

====
